---- MODULE Spec2Model ----
(***************************************************************************)
(* Student activity analysis notebook ("Assignemnt 2/newnotebook.ipynb"):  *)
(* the temporal segmentation of the event log, the construction of the     *)
(* analytics base table (ABT), the train/test preparation, the feature     *)
(* ranking and the feature-subset experiment, as a state machine whose     *)
(* actions are the notebook's cells.                                       *)
(*                                                                         *)
(* Dates are whole day numbers.  A table cell is a record: Num(n) for the  *)
(* number n, Sqrt(p, q) for the float sqrt(p/q) (a standard deviation),    *)
(* NaN for pandas' missing value.                                          *)
(***************************************************************************)
EXTENDS Integers, Sequences, FiniteSets, TLC

VARIABLES
    vle_log,      \* the event table, a sequence of rows
    vle_grades,   \* the label table, a sequence of rows
    min_d,        \* first date of the log (line 113)
    max_d,        \* last date of the log (line 113)
    abt,          \* the analytics base table, a sequence of rows
    pc,           \* the cell the notebook has reached
    err,          \* the exception that stopped it, "" when none
    forest,       \* the importances the seeded forest yields on this data
    X,            \* the feature frame (line 272): row index and columns
    y,            \* the label series (line 273)
    X_train,      \* rows of the training partition
    X_test,       \* rows of the test partition
    scaler,       \* the StandardScaler's fitted statistics
    X_train_s,    \* scaled training partition of the full-feature run
    X_test_s,     \* scaled test partition of the full-feature run
    rf,           \* the fitted random forest
    lr,           \* the fitted logistic regression
    rf_pred,      \* the latest forest predictions
    lr_pred,      \* the latest logistic-regression predictions
    imp,          \* the importance ranking (line 310)
    subsets,      \* the named feature subsets (lines 370-375)
    done,         \* iterations of the subset loop that completed
    Xtr,          \* scaled training partition of the current subset
    Xte,          \* scaled test partition of the current subset
    subset_results, \* the records the subset loop appended
    subset_df,    \* the frame made of subset_results (line 392)
    traceback     \* the (subset, model) whose fit or predict raised

dataVars == <<vle_log, vle_grades, min_d, max_d, abt>>

evalVars ==
    <<forest, X, y, X_train, X_test, scaler, X_train_s, X_test_s, rf, lr,
      rf_pred, lr_pred, imp, subsets, done, Xtr, Xte, subset_results,
      subset_df, traceback>>

vars == <<dataVars, pc, err, evalVars>>

\* ------------------------------------------------------------------ bounds
MaxEvents == 3
NumStudents == 2
MaxDay == 7
MaxLabels == 2
NumEvalStudents == 5

\* ------------------------------------------------------------- input sets
StudentIds == 1..NumStudents
\* A label row may name a student who has no event.
LabelStudentIds == 1..(NumStudents + 1)
ActivityNames == {"quiz_attempt", "forum_post"}
LabelGrades == {"pass", "distinction", "honors"}

SeqsUpTo(S, n) == UNION {[1..k -> S] : k \in 0..n}

EventRows(students, activities, dates) ==
    [student_id : students, activity : activities, date : dates]

LabelRows(students, grades) == [student_id : students, final_grade : grades]

\* ------------------------------------------------------------------ cells
NaN == [kind |-> "nan", num |-> 0, den |-> 1]
Num(n) == [kind |-> "num", num |-> n, den |-> 1]
Sqrt(p, q) == [kind |-> "sqrt", num |-> p, den |-> q]
\* The missing value of a label column (final_grade, period).
NA == "NaN"
\* A notebook variable no cell has assigned yet.
Unset == "unset"

\* A frame, a scaler, a scaled partition, a model and predictions that no
\* cell has assigned yet.
NoFrame == [index |-> <<>>, columns |-> <<>>]
NoFit == [samples_seen |-> {}, feature_names_in |-> <<>>]
NoScaled == [rows |-> {}, columns |-> <<>>, fit |-> NoFit]
NoModel == [kind |-> "", trained_on |-> NoScaled]
NoPred == [model |-> NoModel, on |-> NoScaled]

\* Section 3 has not started.
EvalIdle ==
    /\ forest = <<>>
    /\ X = NoFrame
    /\ y = <<>>
    /\ X_train = {}
    /\ X_test = {}
    /\ scaler = NoFit
    /\ X_train_s = NoScaled
    /\ X_test_s = NoScaled
    /\ rf = NoModel
    /\ lr = NoModel
    /\ rf_pred = NoPred
    /\ lr_pred = NoPred
    /\ imp = <<>>
    /\ subsets = <<>>
    /\ done = 0
    /\ Xtr = NoScaled
    /\ Xte = NoScaled
    /\ subset_results = <<>>
    /\ subset_df = <<>>
    /\ traceback = <<>>

\* ---------------------------------------------------------------- helpers
Range(s) == {s[i] : i \in DOMAIN s}

SetMin(S) == CHOOSE x \in S : \A z \in S : x <= z

SetMax(S) == CHOOSE x \in S : \A z \in S : z <= x

RECURSIVE SortedSeq(_)
\* The elements of a set of integers in ascending order (a sorted index).
SortedSeq(S) ==
    IF S = {} THEN <<>> ELSE <<SetMin(S)>> \o SortedSeq(S \ {SetMin(S)})

RECURSIVE SeqSum(_)
SeqSum(s) == IF s = <<>> THEN 0 ELSE Head(s) + SeqSum(Tail(s))

RECURSIVE Flatten(_)
Flatten(ss) == IF ss = <<>> THEN <<>> ELSE Head(ss) \o Flatten(Tail(ss))

Dates(log) == {log[i].date : i \in DOMAIN log}

\* ------------------------------------------- 1.4 temporal engagement
DayNames ==
    <<"Monday", "Tuesday", "Wednesday", "Thursday", "Friday", "Saturday",
      "Sunday">>

\* Series.dt.day_name(), day 0 being a Monday.
day_name(date) == DayNames[(date % 7) + 1]

period_len(lo, hi) == ((hi - lo) + 1) \div 6

period_edges(lo, hi) == [k \in 1..7 |-> lo + (k - 1) * period_len(lo, hi)]

period_lbls == <<"Early Start", "Start", "Early Mid", "Mid", "Late Mid", "End">>

\* pd.cut rejects bin edges that are not unique (duplicates = 'raise').
BinsUnique(bins) == \A i, j \in DOMAIN bins : i # j => bins[i] # bins[j]

\* pd.cut(x, bins, labels) with its defaults right = True and
\* include_lowest = False: bin k is the interval (bins[k], bins[k+1]], and a
\* value in no bin is missing.
cut(x, bins, labels) ==
    LET hit == {k \in 1..(Len(bins) - 1) : bins[k] < x /\ x <= bins[k + 1]}
    IN  IF hit = {} THEN NA ELSE labels[CHOOSE k \in hit : TRUE]

WithPeriod(e, bins) ==
    [student_id |-> e.student_id, activity |-> e.activity, date |-> e.date,
     day_of_week |-> day_name(e.date),
     period |-> cut(e.date, bins, period_lbls)]

\* Cell "Add weekday and course-period columns".
AddPeriodColumns ==
    /\ pc = "load"
    /\ min_d' = SetMin(Dates(vle_log))
    /\ max_d' = SetMax(Dates(vle_log))
    /\ LET bins == period_edges(min_d', max_d')
       IN  IF BinsUnique(bins)
           THEN /\ vle_log' = [i \in DOMAIN vle_log |-> WithPeriod(vle_log[i], bins)]
                /\ pc' = "period_done"
                /\ err' = ""
           ELSE /\ vle_log' = vle_log
                /\ pc' = "error"
                /\ err' = "ValueError"
    /\ UNCHANGED <<vle_grades, abt, evalVars>>

\* The state after cell 1.1 loaded the two tables.
Loaded(log, grades) ==
    /\ vle_log = log
    /\ vle_grades = grades
    /\ min_d = Unset
    /\ max_d = Unset
    /\ abt = <<>>
    /\ pc = "load"
    /\ err = ""
    /\ EvalIdle

PeriodLogs ==
    SeqsUpTo(EventRows({1}, {"quiz_attempt"}, 0..MaxDay), MaxEvents) \ {<<>>}

InitPeriod == \E log \in PeriodLogs : Loaded(log, <<>>)

NextPeriod == AddPeriodColumns

SpecPeriod == InitPeriod /\ [][NextPeriod]_vars

\* C1: when the period cell has run, every event carries one of the six
\* period labels, none is left without a period: an event dated min_date is
\* in 'Early Start' and an event dated max_date is in 'End'.
C1_EveryEventHasPeriod ==
    pc = "period_done" =>
        \A i \in DOMAIN vle_log :
            /\ vle_log[i].period \in Range(period_lbls)
            /\ vle_log[i].date = min_d => vle_log[i].period = "Early Start"
            /\ vle_log[i].date = max_d => vle_log[i].period = "End"

\* ------------------------------------------------ 2 feature engineering
Students(log) == {log[i].student_id : i \in DOMAIN log}

Activities(log) == {log[i].activity : i \in DOMAIN log}

\* One group of vle_log.groupby('student_id'): the student's rows, in order.
GroupOf(log, s) == SelectSeq(log, LAMBDA e : e.student_id = s)

\* groupby(keys).size(): a series over the groups that exist.
GroupSize(log, s) == Num(Len(GroupOf(log, s)))

\* fillna left out: the missing cell stays missing.
fillna_omitted(c, v) == c

\* fillna(v) on one cell.
fillna(c, v) == IF c.kind = "nan" THEN v ELSE c

\* groupby(['student_id','activity']).size().unstack(fill_value = 0): a
\* (student, activity) pair with no row is no group, and unstack fills it.
activity_pivot(log) ==
    [s \in Students(log) |->
        [a \in Activities(log) |->
            LET rows == SelectSeq(GroupOf(log, s), LAMBDA e : e.activity = a)
            IN  IF rows = <<>> THEN Num(0) ELSE Num(Len(rows))]]

total_acts(log) == [s \in Students(log) |-> GroupSize(log, s)]

\* groupby('student_id')['date'].nunique()
active_days(log) ==
    [s \in Students(log) |-> Num(Cardinality(Dates(GroupOf(log, s))))]

\* df.sort_values('date')['date']
SortedDates(df) == SortSeq([i \in DOMAIN df |-> df[i].date], LAMBDA a, b : a < b)

\* Series.diff().dt.days.dropna(): the first difference is missing and dropped.
Gaps(ds) == [i \in 1..(Len(ds) - 1) |-> ds[i + 1] - ds[i]]

\* Series.std(), the sample standard deviation (ddof = 1): missing for
\* fewer than two values, else sqrt((n * sum(g^2) - sum(g)^2) / (n * (n - 1))).
std(gs) ==
    LET n == Len(gs)
        sq == SeqSum([i \in DOMAIN gs |-> gs[i] * gs[i]])
        vnum == n * sq - SeqSum(gs) * SeqSum(gs)
    IN  IF n < 2 THEN NaN
        ELSE IF vnum = 0 THEN Num(0) ELSE Sqrt(vnum, n * (n - 1))

\* stdev_gap without its two guards: the deviation of whatever gaps exist.
stdev_gap_unguarded(df) == std(Gaps(SortedDates(df)))

stdev_gap(df) ==
    IF Len(df) < 2 THEN Num(0)
    ELSE LET gaps == Gaps(SortedDates(df))
         IN  IF gaps = <<>> THEN Num(0) ELSE std(gaps)

\* vle_log.groupby('student_id').apply(stdev_gap)
activity_consist(log) == [s \in Students(log) |-> stdev_gap(GroupOf(log, s))]

\* Twice the midpoint min_d + (max_d - min_d)/2, which may fall on a half day.
midpoint_x2(lo, hi) == 2 * lo + (hi - lo)

\* date < midpoint: an event on the midpoint falls in neither half.
InFirstHalfStrict(e, lo, hi) == 2 * e.date < midpoint_x2(lo, hi)

InFirstHalf(e, lo, hi) == 2 * e.date <= midpoint_x2(lo, hi)

InSecondHalf(e, lo, hi) == 2 * e.date > midpoint_x2(lo, hi)

\* vle_log[vle_log['date'] <= midpoint].groupby('student_id').size()
first_half(log, lo, hi) ==
    LET part == SelectSeq(log, LAMBDA e : InFirstHalf(e, lo, hi))
    IN  [s \in Students(part) |-> GroupSize(part, s)]

\* vle_log[vle_log['date'] > midpoint].groupby('student_id').size()
second_half(log, lo, hi) ==
    LET part == SelectSeq(log, LAMBDA e : InSecondHalf(e, lo, hi))
    IN  [s \in Students(part) |-> GroupSize(part, s)]

AggregateNames ==
    {"total_activities", "active_days", "activity_consistency",
     "first_half_activities", "second_half_activities"}

\* pd.concat({name: series}, axis = 1): the union of the indexes, a series
\* without the key leaving a missing cell.
concat(series) ==
    [s \in UNION {DOMAIN series[c] : c \in DOMAIN series} |->
        [c \in DOMAIN series |->
            IF s \in DOMAIN series[c] THEN series[c][s] ELSE NaN]]

\* DataFrame.fillna(0)
FillFrame(df) == [s \in DOMAIN df |-> [c \in DOMAIN df[s] |-> fillna(df[s][c], Num(0))]]

features(log, lo, hi) ==
    FillFrame(concat([total_activities |-> total_acts(log),
                      active_days |-> active_days(log),
                      activity_consistency |-> activity_consist(log),
                      first_half_activities |-> first_half(log, lo, hi),
                      second_half_activities |-> second_half(log, lo, hi)]))

\* left.join(right, how = 'left') of two frames with unique indexes: every
\* row of left, the right's columns missing where right has no such key.
JoinLeft(left, right, rightCols) ==
    [s \in DOMAIN left |->
        [c \in DOMAIN left[s] \cup rightCols |->
            IF c \in DOMAIN left[s] THEN left[s][c]
            ELSE IF s \in DOMAIN right THEN right[s][c] ELSE NaN]]

\* An inner join: a feature row without a label row is dropped.
JoinLabelsInner(s, cells, grades) ==
    LET hits == SelectSeq(grades, LAMBDA g : g.student_id = s)
    IN  [i \in DOMAIN hits |->
            [student_id |-> s, cells |-> cells, final_grade |-> hits[i].final_grade]]

\* The rows .join(vle_grades.set_index('student_id')) makes of one feature
\* row: one per label row of that student, or one with a missing final_grade.
JoinLabels(s, cells, grades) ==
    LET hits == SelectSeq(grades, LAMBDA g : g.student_id = s)
    IN  IF hits = <<>>
        THEN <<[student_id |-> s, cells |-> cells, final_grade |-> NA]>>
        ELSE [i \in DOMAIN hits |->
                [student_id |-> s, cells |-> cells,
                 final_grade |-> hits[i].final_grade]]

\* abt = features.join(activity_pivot, how='left').fillna(0).join(labels)
BuildFrame(log, lo, hi, grades) ==
    LET feat == features(log, lo, hi)
        wide == FillFrame(JoinLeft(feat, activity_pivot(log), Activities(log)))
        index == SortedSeq(DOMAIN wide)
    IN  Flatten([i \in DOMAIN index |-> JoinLabels(index[i], wide[index[i]], grades)])

\* Cell "Build ABT".
BuildABT ==
    /\ pc = "period_done"
    /\ abt' = BuildFrame(vle_log, min_d, max_d, vle_grades)
    /\ pc' = "abt_built"
    /\ UNCHANGED <<vle_log, vle_grades, min_d, max_d, err, evalVars>>

GRADE_MAP == [fail |-> 1, pass |-> 2, merit |-> 3, distinction |-> 4]

\* Series.map(dict): a value that is no key of the dict maps to missing.
MapGrade(g) == IF g \in DOMAIN GRADE_MAP THEN Num(GRADE_MAP[g]) ELSE NaN

\* abt['grade_numeric'] = abt['final_grade'].map(GRADE_MAP)
WithGradeNumeric(frame) ==
    [i \in DOMAIN frame |->
        [student_id |-> frame[i].student_id, cells |-> frame[i].cells,
         final_grade |-> frame[i].final_grade,
         grade_numeric |-> MapGrade(frame[i].final_grade)]]

\* Cell "Numeric grade column".
NumericGrade ==
    /\ pc = "abt_built"
    /\ abt' = WithGradeNumeric(abt)
    /\ pc' = "abt_done"
    /\ UNCHANGED <<vle_log, vle_grades, min_d, max_d, err, evalVars>>

NextABT == AddPeriodColumns \/ BuildABT \/ NumericGrade

\* Dates a week apart at most, so that a log can span the six days the
\* period cell needs.
FeatureDates == {0, 3, 6}

FeatureLogs ==
    SeqsUpTo(EventRows(StudentIds, ActivityNames, FeatureDates), MaxEvents) \ {<<>>}

FeatureGrades == <<[student_id |-> 1, final_grade |-> "pass"]>>

InitFeatures == \E log \in FeatureLogs : Loaded(log, FeatureGrades)

SpecFeatures == InitFeatures /\ [][NextABT]_vars

\* Logs of student 1's event on day 0 followed by events on day 6.
JoinLogs ==
    {<<[student_id |-> 1, activity |-> "quiz_attempt", date |-> 0]>> \o later :
        later \in SeqsUpTo(EventRows(StudentIds, {"quiz_attempt"}, {6}),
                            MaxEvents - 1)}

JoinGrades == SeqsUpTo(LabelRows(LabelStudentIds, LabelGrades), MaxLabels)

InitJoin == \E log \in JoinLogs, grades \in JoinGrades : Loaded(log, grades)

SpecJoin == InitJoin /\ [][NextABT]_vars

\* ------------------------------------------------- properties of the ABT
AbtBuilt == pc \in {"abt_built", "abt_done"}

RowsOf(s) == {i \in DOMAIN abt : abt[i].student_id = s}

EventsOf(s) == {i \in DOMAIN vle_log : vle_log[i].student_id = s}

FeatureNames == AggregateNames \cup Activities(vle_log)

FullyPopulated(row) ==
    /\ DOMAIN row.cells = FeatureNames
    /\ \A c \in FeatureNames : row.cells[c].kind # "nan"

\* C2: in the ABT every student with an event has a row, and each row holds
\* a defined number in each of the five aggregates and in one column per
\* observed activity; the count of an activity the student never performed,
\* and of a half without an event of theirs, is 0.
C2_ZeroFill ==
    AbtBuilt =>
        \A s \in Students(vle_log) :
            /\ RowsOf(s) # {}
            /\ \A i \in RowsOf(s) :
                /\ FullyPopulated(abt[i])
                /\ \A a \in Activities(vle_log) :
                    (\A k \in EventsOf(s) : vle_log[k].activity # a)
                        => abt[i].cells[a] = Num(0)
                /\ (\A k \in EventsOf(s) : 2 * vle_log[k].date > min_d + max_d)
                        => abt[i].cells["first_half_activities"] = Num(0)
                /\ (\A k \in EventsOf(s) : 2 * vle_log[k].date <= min_d + max_d)
                        => abt[i].cells["second_half_activities"] = Num(0)

\* A student who never performed one of the observed activities and has no
\* event in the second half, in an ABT that was built.
C2_Witness ==
    /\ pc = "abt_done"
    /\ \E i \in DOMAIN abt :
        /\ \E a \in Activities(vle_log) :
            /\ abt[i].cells[a] = Num(0)
            /\ \A k \in EventsOf(abt[i].student_id) : vle_log[k].activity # a
        /\ abt[i].cells["second_half_activities"] = Num(0)
        /\ abt[i].cells["total_activities"].num = 2

\* C3: for every row of the ABT the two half counts are numbers that add up
\* to total_activities, the first counting the student's events dated on or
\* before the midpoint and the second those after it.
C3_HalfSplit ==
    AbtBuilt =>
        \A i \in DOMAIN abt :
            LET c == abt[i].cells
                own == EventsOf(abt[i].student_id)
            IN  /\ c["first_half_activities"].kind = "num"
                /\ c["second_half_activities"].kind = "num"
                /\ c["total_activities"].kind = "num"
                /\ c["first_half_activities"].num + c["second_half_activities"].num
                       = c["total_activities"].num
                /\ c["first_half_activities"].num
                       = Cardinality({k \in own : 2 * vle_log[k].date <= min_d + max_d})
                /\ c["second_half_activities"].num
                       = Cardinality({k \in own : 2 * vle_log[k].date > min_d + max_d})
                /\ c["total_activities"].num = Cardinality(own)

\* A student all of whose events lie in the second half, beside a student
\* with an event on the midpoint itself.
C3_Witness ==
    /\ pc = "abt_done"
    /\ \E i \in DOMAIN abt :
        /\ abt[i].cells["first_half_activities"] = Num(0)
        /\ abt[i].cells["second_half_activities"] = abt[i].cells["total_activities"]
    /\ \E k \in DOMAIN vle_log : 2 * vle_log[k].date = min_d + max_d

\* C6: a student with fewer than two events has activity_consistency 0:
\* stdev_gap returns the number 0 for the student's group, and the ABT row
\* holds 0.
C6_SingleEventConsistency ==
    AbtBuilt =>
        \A s \in Students(vle_log) :
            Cardinality(EventsOf(s)) < 2 =>
                /\ activity_consist(vle_log)[s] = Num(0)
                /\ \A i \in RowsOf(s) : abt[i].cells["activity_consistency"] = Num(0)

\* A student with exactly one event, beside one with more, in a built ABT.
C6_Witness ==
    /\ pc = "abt_done"
    /\ \E i, j \in DOMAIN abt :
        /\ Cardinality(EventsOf(abt[i].student_id)) = 1
        /\ abt[i].cells["activity_consistency"] = Num(0)
        /\ Cardinality(EventsOf(abt[j].student_id)) = 2

UniqueLabels ==
    \A i, j \in DOMAIN vle_grades :
        i # j => vle_grades[i].student_id # vle_grades[j].student_id

LabelsOf(s) == {i \in DOMAIN vle_grades : vle_grades[i].student_id = s}

C5_OneRowPerEventStudent ==
    (AbtBuilt /\ UniqueLabels) =>
        /\ \A s \in Students(vle_log) : Cardinality(RowsOf(s)) = 1
        /\ \A i \in DOMAIN abt :
            /\ abt[i].student_id \in Students(vle_log)
            /\ FullyPopulated(abt[i])
            /\ LabelsOf(abt[i].student_id) = {} => abt[i].final_grade = NA
            /\ \A k \in LabelsOf(abt[i].student_id) :
                   abt[i].final_grade = vle_grades[k].final_grade

\* A label for a student without events, and a student with events and no
\* label, in a built ABT.
C5_Witness ==
    /\ pc = "abt_done"
    /\ UniqueLabels
    /\ \E k \in DOMAIN vle_grades : vle_grades[k].student_id \notin Students(vle_log)
    /\ \E i \in DOMAIN abt : abt[i].final_grade = NA
    /\ \E i \in DOMAIN abt : abt[i].final_grade # NA

\* --------------------------------------------- 3 classification, 4 subsets
\* The column order of the ABT: the aggregates as concat lists them, then
\* the activity columns in unstack's sorted order.
ColumnOrder ==
    <<"total_activities", "active_days", "activity_consistency",
      "first_half_activities", "second_half_activities", "forum_post",
      "quiz_attempt">>

\* The characters of the column names and of the tokens matched in them.
Spell ==
    [total_activities |->
        <<"t", "o", "t", "a", "l", "_", "a", "c", "t", "i", "v", "i", "t", "i", "e", "s">>,
     active_days |-> <<"a", "c", "t", "i", "v", "e", "_", "d", "a", "y", "s">>,
     activity_consistency |->
        <<"a", "c", "t", "i", "v", "i", "t", "y", "_", "c", "o", "n", "s", "i", "s", "t", "e", "n", "c", "y">>,
     first_half_activities |->
        <<"f", "i", "r", "s", "t", "_", "h", "a", "l", "f", "_", "a", "c", "t", "i", "v", "i", "t", "i", "e", "s">>,
     second_half_activities |->
        <<"s", "e", "c", "o", "n", "d", "_", "h", "a", "l", "f", "_", "a", "c", "t", "i", "v", "i", "t", "i", "e", "s">>,
     forum_post |-> <<"f", "o", "r", "u", "m", "_", "p", "o", "s", "t">>,
     quiz_attempt |-> <<"q", "u", "i", "z", "_", "a", "t", "t", "e", "m", "p", "t">>,
     activity |-> <<"a", "c", "t", "i", "v", "i", "t", "y">>,
     engagement |-> <<"e", "n", "g", "a", "g", "e", "m", "e", "n", "t">>,
     visit |-> <<"v", "i", "s", "i", "t">>,
     view |-> <<"v", "i", "e", "w">>,
     attempt |-> <<"a", "t", "t", "e", "m", "p", "t">>,
     download |-> <<"d", "o", "w", "n", "l", "o", "a", "d">>,
     ratio |-> <<"r", "a", "t", "i", "o">>,
     consistency |-> <<"c", "o", "n", "s", "i", "s", "t", "e", "n", "c", "y">>]

\* Python's `needle in hay` on strings.
Contains(hay, needle) ==
    \E i \in 0..(Len(Spell[hay]) - Len(Spell[needle])) :
        SubSeq(Spell[hay], i + 1, i + Len(Spell[needle])) = Spell[needle]

\* abt.drop(columns = ['final_grade', 'grade_numeric'])
DropLabels(frame) ==
    [index |-> [i \in DOMAIN frame |-> i],
     columns |-> IF frame = <<>> THEN <<>>
                 ELSE SelectSeq(ColumnOrder, LAMBDA c : c \in DOMAIN frame[1].cells)]

ClassCount(labels, k) == Cardinality({i \in DOMAIN labels : labels[i] = k})

\* test_size = .25: ceil(0.25 * n) test rows, the rest train.
n_test(n) == (n + 3) \div 4

n_train(n) == n - n_test(n)

\* The ValueError of train_test_split(..., stratify = y): a missing label, no
\* training row, a class with a single member, or fewer rows in a
\* partition than there are classes.
SplitFails(labels) ==
    LET n == Len(labels)
        classes == Range(labels)
    IN  \/ NA \in classes
        \/ n_train(n) = 0
        \/ \E k \in classes : ClassCount(labels, k) < 2
        \/ n_train(n) < Cardinality(classes)
        \/ n_test(n) < Cardinality(classes)

\* The training rows of each class: the proportional share rounded down,
\* the rows left over going to the classes with the largest remainders.
TrainAllocations(labels) ==
    LET n == Len(labels)
        classes == Range(labels)
        share(k) == (ClassCount(labels, k) * n_train(n)) \div n
        rest(k) == (ClassCount(labels, k) * n_train(n)) % n
        \* the shares of the classes, each counted at its first row
        total == SeqSum([i \in DOMAIN labels |->
                    IF \A j \in 1..(i - 1) : labels[j] # labels[i]
                    THEN share(labels[i]) ELSE 0])
        need == n_train(n) - total
    IN  {[k \in classes |-> share(k) + (IF k \in A THEN 1 ELSE 0)] :
            A \in {B \in SUBSET classes :
                    /\ Cardinality(B) = need
                    /\ \A a \in B, b \in classes \ B : rest(a) >= rest(b)}}

\* The test partitions a stratified shuffle split can draw.
StratifiedTests(labels) ==
    {T \in SUBSET DOMAIN labels :
        \E alloc \in TrainAllocations(labels) :
            \A k \in Range(labels) :
                Cardinality({i \in T : labels[i] = k})
                    = ClassCount(labels, k) - alloc[k]}

\* StandardScaler.fit: the statistics of the given rows and columns.
fit(rows, columns) == [samples_seen |-> rows, feature_names_in |-> columns]

\* StandardScaler.transform: the rows standardised with the fitted statistics.
transform(sc, rows, columns) == [rows |-> rows, columns |-> columns, fit |-> sc]

\* Cell "Prepare data": X, y, the stratified split and the scaling.
PrepareData ==
    /\ pc = "abt_done"
    /\ X' = DropLabels(abt)
    /\ y' = [i \in DOMAIN abt |-> abt[i].final_grade]
    /\ IF SplitFails(y')
       THEN /\ pc' = "error"
            /\ err' = "ValueError"
            /\ UNCHANGED <<X_train, X_test, scaler, X_train_s, X_test_s>>
       ELSE /\ \E T \in StratifiedTests(y') :
                /\ X_test' = T
                /\ X_train' = DOMAIN y' \ T
            /\ scaler' = fit(X_train', X'.columns)
            /\ X_train_s' = transform(scaler', X_train', X'.columns)
            /\ X_test_s' = transform(scaler', X_test', X'.columns)
            /\ pc' = "split_done"
            /\ err' = ""
    /\ UNCHANGED <<dataVars, forest, rf, lr, rf_pred, lr_pred, imp, subsets,
                   done, Xtr, Xte, subset_results, subset_df, traceback>>

\* Cell "Random Forest": cross-validate, fit and predict; any of the three
\* may raise.
RandomForest ==
    /\ pc = "split_done"
    /\ \/ /\ rf' = [kind |-> "RF", trained_on |-> X_train_s]
          /\ rf_pred' = [model |-> rf', on |-> X_test_s]
          /\ pc' = "rf_done"
          /\ UNCHANGED <<err, traceback>>
       \/ /\ pc' = "error"
          /\ err' = "Exception"
          /\ traceback' = <<"Full", "RF">>
          /\ UNCHANGED <<rf, rf_pred>>
    /\ UNCHANGED <<dataVars, forest, X, y, X_train, X_test, scaler, X_train_s,
                   X_test_s, lr, lr_pred, imp, subsets, done, Xtr, Xte,
                   subset_results, subset_df>>

\* rf.feature_importances_ as a series indexed by X.columns.
ImportanceSeries(columns, importances) ==
    [k \in DOMAIN columns |-> [name |-> columns[k], value |-> importances[k]]]

RECURSIVE DescendingOrders(_)
\* Series.sort_values(ascending = False) with the default kind 'quicksort',
\* which is not stable: any order whose values do not increase.
DescendingOrders(entries) ==
    IF entries = {} THEN {<<>>}
    ELSE UNION {{<<e>> \o rest : rest \in DescendingOrders(entries \ {e})} :
                  e \in {m \in entries : \A o \in entries : o.value <= m.value}}

sort_values_descending(series) == DescendingOrders(Range(series))

\* Cell "RF feature importance".
FeatureImportance ==
    /\ pc = "rf_done"
    /\ imp' \in sort_values_descending(ImportanceSeries(X.columns, forest))
    /\ pc' = "imp_done"
    /\ UNCHANGED <<dataVars, err, forest, X, y, X_train, X_test, scaler,
                   X_train_s, X_test_s, rf, lr, rf_pred, lr_pred, subsets, done,
                   Xtr, Xte, subset_results, subset_df, traceback>>

\* Cell "Logistic Regression": cross-validate, fit and predict; any may raise.
LogisticRegression ==
    /\ pc = "imp_done"
    /\ \/ /\ lr' = [kind |-> "LR", trained_on |-> X_train_s]
          /\ lr_pred' = [model |-> lr', on |-> X_test_s]
          /\ pc' = "lr_done"
          /\ UNCHANGED <<err, traceback>>
       \/ /\ pc' = "error"
          /\ err' = "Exception"
          /\ traceback' = <<"Full", "LR">>
          /\ UNCHANGED <<lr, lr_pred>>
    /\ UNCHANGED <<dataVars, forest, X, y, X_train, X_test, scaler, X_train_s,
                   X_test_s, rf, rf_pred, imp, subsets, done, Xtr, Xte,
                   subset_results, subset_df>>

\* Series.head(n).index.tolist()
head(ranking, n) ==
    [i \in 1..(IF Len(ranking) < n THEN Len(ranking) ELSE n) |-> ranking[i].name]

top5_feats(ranking) == head(ranking, 5)

eng_tokens == <<"activity", "engagement", "visit", "view", "attempt", "download">>

eng_feats(columns) ==
    SelectSeq(columns, LAMBDA c : \E t \in Range(eng_tokens) : Contains(c, t))

freq_feats(columns) ==
    SelectSeq(columns,
              LAMBDA c : ~Contains(c, "ratio") /\ ~Contains(c, "consistency"))

\* Cell "Define subsets": the dict, in insertion order.
DefineSubsets ==
    /\ pc = "lr_done"
    /\ subsets' =
        <<[name |-> "All Features", cols |-> X.columns],
          [name |-> "Top 5 Features", cols |-> top5_feats(imp)],
          [name |-> "Engagement Features", cols |-> eng_feats(X.columns)],
          [name |-> "Frequency Features", cols |-> freq_feats(X.columns)]>>
    /\ pc' = "subsets_defined"
    /\ UNCHANGED <<dataVars, err, forest, X, y, X_train, X_test, scaler,
                   X_train_s, X_test_s, rf, lr, rf_pred, lr_pred, imp, done, Xtr,
                   Xte, subset_results, subset_df, traceback>>

\* The transforms of line 381 with the scaler left as the last fit left it.
SubsetScaleStale(sc, train, test, cols) ==
    [scaler |-> sc,
     Xtr |-> transform(sc, train, cols),
     Xte |-> transform(sc, test, cols)]

\* Line 381: the scaler refitted on X_train[cols], then applied to X_test[cols].
SubsetScale(sc, train, test, cols) ==
    [scaler |-> fit(train, cols),
     Xtr |-> transform(fit(train, cols), train, cols),
     Xte |-> transform(fit(train, cols), test, cols)]

Result(name, model) == [Subset |-> name, Model |-> model]

\* One iteration of the loop of cell "Evaluate each subset with RF & LR"
\* (the first one starting from subset_results = []): the forest's fit or
\* predict may raise, then the logistic regression's; an exception leaves
\* the loop and the cell.
EvaluateSubset ==
    /\ pc \in {"subsets_defined", "in_loop"}
    /\ done < Len(subsets)
    /\ LET name == subsets[done + 1].name
           cols == subsets[done + 1].cols
           scaled == SubsetScale(scaler, X_train, X_test, cols)
           sofar == IF done = 0 THEN <<>> ELSE subset_results
           rf_tmp == [kind |-> "RF", trained_on |-> scaled.Xtr]
           lr_tmp == [kind |-> "LR", trained_on |-> scaled.Xtr]
       IN  /\ scaler' = scaled.scaler
           /\ Xtr' = scaled.Xtr
           /\ Xte' = scaled.Xte
           /\ \/ /\ rf_pred' = [model |-> rf_tmp, on |-> scaled.Xte]
                 /\ lr_pred' = [model |-> lr_tmp, on |-> scaled.Xte]
                 /\ subset_results' =
                        sofar \o <<Result(name, "RF"), Result(name, "LR")>>
                 /\ done' = done + 1
                 /\ pc' = "in_loop"
                 /\ UNCHANGED <<err, traceback>>
              \/ /\ subset_results' = sofar
                 /\ pc' = "error"
                 /\ err' = "Exception"
                 /\ traceback' = <<name, "RF">>
                 /\ UNCHANGED <<rf_pred, lr_pred, done>>
              \/ /\ rf_pred' = [model |-> rf_tmp, on |-> scaled.Xte]
                 /\ subset_results' = Append(sofar, Result(name, "RF"))
                 /\ pc' = "error"
                 /\ err' = "Exception"
                 /\ traceback' = <<name, "LR">>
                 /\ UNCHANGED <<lr_pred, done>>
    /\ UNCHANGED <<dataVars, forest, X, y, X_train, X_test, X_train_s, X_test_s,
                   rf, lr, imp, subsets, subset_df>>

\* Line 392, after the last iteration.
BuildSubsetDf ==
    /\ pc = "in_loop"
    /\ done = Len(subsets)
    /\ subset_df' = subset_results
    /\ pc' = "done"
    /\ UNCHANGED <<dataVars, err, forest, X, y, X_train, X_test, scaler,
                   X_train_s, X_test_s, rf, lr, rf_pred, lr_pred, imp, subsets,
                   done, Xtr, Xte, subset_results, traceback>>

NextEval ==
    \/ PrepareData
    \/ RandomForest
    \/ FeatureImportance
    \/ LogisticRegression
    \/ DefineSubsets
    \/ EvaluateSubset
    \/ BuildSubsetDf

\* An event log of NumEvalStudents students: a quiz attempt each, on day 0,
\* 3 or 6, and a forum post of the even-numbered ones.
EvalLog ==
    Flatten([s \in 1..NumEvalStudents |->
        <<[student_id |-> s, activity |-> "quiz_attempt", date |-> 3 * (s % 3)]>>
        \o (IF s % 2 = 0
            THEN <<[student_id |-> s, activity |-> "forum_post", date |-> 0]>>
            ELSE <<>>)])

\* A label table with at most one row per student.
EvalGrades(g) ==
    Flatten([s \in 1..NumEvalStudents |->
        IF g[s] = NA THEN <<>> ELSE <<[student_id |-> s, final_grade |-> g[s]]>>])

\* The importances of the columns, in column order: all different, or
\* equal in pairs.
EvalForests(n) == {[k \in 1..n |-> k], [k \in 1..n |-> (k + 1) \div 2]}

\* The state after sections 1 and 2: the periods added to the log (which
\* spans seven days), the ABT built of the log and the labels.
InitEval ==
    \E g \in [1..NumEvalStudents -> {"fail", "pass", NA}] :
        /\ vle_log = [i \in DOMAIN EvalLog |->
                        WithPeriod(EvalLog[i],
                                   period_edges(SetMin(Dates(EvalLog)),
                                                SetMax(Dates(EvalLog))))]
        /\ vle_grades = EvalGrades(g)
        /\ min_d = SetMin(Dates(EvalLog))
        /\ max_d = SetMax(Dates(EvalLog))
        /\ abt = WithGradeNumeric(BuildFrame(vle_log, min_d, max_d, vle_grades))
        /\ pc = "abt_done"
        /\ err = ""
        /\ forest \in EvalForests(Len(DropLabels(abt).columns))
        /\ X = NoFrame
        /\ y = <<>>
        /\ X_train = {}
        /\ X_test = {}
        /\ scaler = NoFit
        /\ X_train_s = NoScaled
        /\ X_test_s = NoScaled
        /\ rf = NoModel
        /\ lr = NoModel
        /\ rf_pred = NoPred
        /\ lr_pred = NoPred
        /\ imp = <<>>
        /\ subsets = <<>>
        /\ done = 0
        /\ Xtr = NoScaled
        /\ Xte = NoScaled
        /\ subset_results = <<>>
        /\ subset_df = <<>>
        /\ traceback = <<>>

SpecEval == InitEval /\ [][NextEval]_vars

\* ------------------------------------------ properties of the evaluation
\* A scaled pair of partitions whose statistics were fitted on the training
\* rows restricted to cols, the one fit applied to both partitions.
ScaledOnTraining(tr, te, cols) ==
    /\ tr.fit = [samples_seen |-> X_train, feature_names_in |-> cols]
    /\ te.fit = tr.fit
    /\ tr.rows = X_train /\ tr.columns = cols
    /\ te.rows = X_test /\ te.columns = cols
    /\ tr.fit.samples_seen \cap X_test = {}

\* The subset the loop evaluated last: the one it completed, or the one it
\* failed in.
LastSubset == subsets[IF pc = "error" THEN done + 1 ELSE done]

\* C7: the scaled partitions of the full-feature run, and those of every
\* iteration of the subset loop, come from statistics fitted on the training
\* rows and on exactly the columns evaluated, the same fit serving both
\* partitions; no test row is among the rows the statistics saw.
C7_ScalingFittedOnTrainingColumns ==
    /\ X_train_s # NoScaled => ScaledOnTraining(X_train_s, X_test_s, X.columns)
    /\ Xtr # NoScaled =>
        /\ ScaledOnTraining(Xtr, Xte, LastSubset.cols)
        /\ scaler = Xtr.fit

\* The loop ran to its end, its last subset narrower than the full frame.
C7_Witness ==
    /\ pc = "done"
    /\ X_test # {}
    /\ Xtr.columns # X.columns
    /\ Len(subsets[2].cols) = 5
    /\ X_train_s.columns = X.columns

\* C8: no student with a missing final_grade is among the rows handed to the
\* supervised evaluation, nor in the training or the test partition.
C8_UnlabelledExcluded ==
    \A i \in Range(X.index) \cup X_train \cup X_test : abt[i].final_grade # NA

ColumnPosition(c) == CHOOSE k \in DOMAIN X.columns : X.columns[k] = c

\* C9: the ranking lists every column once, by descending importance and,
\* among equal importances, in column order; the Top 5 subset is its first
\* five columns.
C9_RankingStable ==
    imp # <<>> =>
        /\ Len(imp) = Len(X.columns)
        /\ {imp[i].name : i \in DOMAIN imp} = Range(X.columns)
        /\ \A i, j \in DOMAIN imp :
            i < j =>
                /\ imp[i].value >= imp[j].value
                /\ imp[i].value = imp[j].value
                       => ColumnPosition(imp[i].name) < ColumnPosition(imp[j].name)
        /\ subsets # <<>> => subsets[2].cols = [i \in 1..5 |-> imp[i].name]

ModelNames == {"RF", "LR"}

ResultsFor(name, model) ==
    {i \in DOMAIN subset_results :
        subset_results[i] = [Subset |-> name, Model |-> model]}

\* The subset experiment is over: it finished, or a fit or predict of the
\* loop raised.
ExperimentOver ==
    \/ pc = "done"
    \/ pc = "error" /\ traceback # <<>> /\ traceback[1] # "Full"

\* C10: when the experiment is over, every (subset, model) combination other
\* than one whose fit or predict raised has exactly one result.
C10_SiblingsCollected ==
    ExperimentOver =>
        \A k \in DOMAIN subsets : \A m \in ModelNames :
            <<subsets[k].name, m>> # traceback
                => Cardinality(ResultsFor(subsets[k].name, m)) = 1

====
